---- MODULE Spec2Model ----
(***************************************************************************)
(* The focal-plane modelling notebook                                      *)
(* (notebooks/ztf/Focal_plane_modeling.ipynb) as a state machine: one      *)
(* action per code cell, one per iteration of each of its three loops.     *)
(*                                                                         *)
(* Numbers are exact rationals <<n, d>> (d > 0, lowest terms); the Python  *)
(* value None is <<0, 0>>.  A star's sky position is given by its          *)
(* tangent-plane coordinates about the telescope pointing, in degrees      *)
(* (the gnomonic map is a bijection near the pointing), so that the        *)
(* projection of cell 13 is exactly pixel = crpix + world / cdelt.         *)
(***************************************************************************)
EXTENDS Integers, Sequences, FiniteSets, TLC

(***************************************************************************)
(* Exact rational arithmetic.                                              *)
(***************************************************************************)
Abs(n) == IF n < 0 THEN -n ELSE n

RECURSIVE Gcd(_, _)
Gcd(a, b) == IF b = 0 THEN a ELSE Gcd(b, a % b)

Rat(n, d) ==
    LET g == Gcd(Abs(n), Abs(d))
        s == IF d < 0 THEN -1 ELSE 1
    IN  <<(s * n) \div g, (s * d) \div g>>

R(n) == <<n, 1>>
None == <<0, 0>>
IsNone(v) == v[2] = 0
RAdd(a, b) ==
    IF a[2] = 1 /\ b[2] = 1 THEN <<a[1] + b[1], 1>>
    ELSE LET g == Gcd(a[2], b[2])
         IN  Rat(a[1] * (b[2] \div g) + b[1] * (a[2] \div g), (a[2] \div g) * b[2])
RNeg(a) == <<-a[1], a[2]>>
RSub(a, b) == RAdd(a, RNeg(b))
RMul(a, b) ==
    IF a[2] = 1 /\ b[2] = 1 THEN <<a[1] * b[1], 1>>
    ELSE LET g == Gcd(Abs(a[1]), b[2])
             h == Gcd(Abs(b[1]), a[2])
         IN  <<(a[1] \div g) * (b[1] \div h), (a[2] \div h) * (b[2] \div g)>>
RDiv(a, b) == RMul(a, IF b[1] < 0 THEN <<-b[2], -b[1]>> ELSE <<b[2], b[1]>>)
RIsZero(a) == a[1] = 0

\* 2x2 and 3x3 determinants of rationals
Det2(a, b, c, d) == RSub(RMul(a, d), RMul(b, c))
Det3(m) ==
    RAdd(RSub(RMul(m[1][1], Det2(m[2][2], m[2][3], m[3][2], m[3][3])),
              RMul(m[1][2], Det2(m[2][1], m[2][3], m[3][1], m[3][3]))),
         RMul(m[1][3], Det2(m[2][1], m[2][2], m[3][1], m[3][2])))

(***************************************************************************)
(* In-line constants of the notebook.                                      *)
(***************************************************************************)
NCCD == 16
NQUADRANT == 4
NRCID == 64
MY_RCID == 32
PROJ_CRPIX == <<9, 2>>          \* proj_wcs.wcs.crpix = [4.5, 4.5]

(***************************************************************************)
(* Bounds of the model.                                                    *)
(***************************************************************************)
MaxAmp == 1        \* distortion amplitudes 0..MaxAmp in the archived catalogs
MaxWrites == 2     \* executions of the header-writing cell

\* Scales tried for proj_wcs.wcs.cdelt; the notebook's own value is 1.
Scales == {1, 2}
\* Quadrants whose catalog may be empty, hold one star, or hold stars that
\* are collinear on the sky.
SpecialQuads == {0, 32, 63}
\* The quadrant that holds four stars carrying the optical distortion.
DenseQuads == {9}

(***************************************************************************)
(* The archive: the catalogs the Loader downloads.  Quadrant q images the  *)
(* sky about WorldCentre through the integer matrix QuadMatrix(q), pixel   *)
(* QuadPixel0(q) falling on WorldCentre.  Its three stars lie on the two   *)
(* lines u = 0 and u = v through the centre (u, v the offsets from it);    *)
(* the dense quadrant's four stars lie off them and are displaced by       *)
(* amp * (u^2 - u*v) in ra and twice that in dec.                          *)
(***************************************************************************)
WorldCentre == <<-4, -2>>
QuadMatrix(q) ==
    CASE q % 4 = 0 -> <<1, 0, 0, 1>>
      [] q % 4 = 1 -> <<0, -1, 1, 0>>
      [] q % 4 = 2 -> <<1, 1, 0, 1>>
      [] OTHER     -> <<2, 1, 1, 1>>
QuadMatrixInv(q) ==
    CASE q % 4 = 0 -> <<1, 0, 0, 1>>
      [] q % 4 = 1 -> <<0, 1, -1, 0>>
      [] q % 4 = 2 -> <<1, -1, 0, 1>>
      [] OTHER     -> <<1, -1, -1, 2>>
QuadPixel0(q) == <<8 + (q % 5), 8 + (q % 2)>>
QuadStep(q) == 1 + (q % 3)
Conic(u, v) == u * u - u * v

NormalOffsets(q) ==
    LET t == QuadStep(q) IN << <<0, t>>, <<0, 2 * t>>, <<t, t>> >>
DenseOffsets == << <<1, 0>>, <<-1, 0>>, <<1, 2>>, <<-1, -2>> >>
SkylineOffsets(q) ==
    LET t == QuadStep(q) IN << <<0, t>>, <<0, 2 * t>>, <<0, 3 * t>> >>

\* the star of quadrant q at pixel offset Minv*w, seen at sky offset sky,
\* displaced by amp * Conic
ArchiveStar(q, w, sky, amp) ==
    LET mi == QuadMatrixInv(q)
        p0 == QuadPixel0(q)
        c  == Conic(sky[1], sky[2])
    IN  [ xpos |-> R(p0[1] + mi[1] * w[1] + mi[2] * w[2]),
          ypos |-> R(p0[2] + mi[3] * w[1] + mi[4] * w[2]),
          ra   |-> R(WorldCentre[1] + sky[1] + amp * c),
          dec  |-> R(WorldCentre[2] + sky[2] + 2 * amp * c) ]

ArchiveKinds == {"full", "empty", "one", "skyline"}
Archives ==
    { a \in [kind : ArchiveKinds, quad : SpecialQuads, amp : 0..MaxAmp] :
        /\ a.kind = "full" => a.quad = 0
        /\ a.kind = "one" => a.quad # 0 }

\* rcid of the header, and the table, of the catalog file of (ccd, quadrant)
ArchiveRcid(c, q) == (c - 1) * NQUADRANT + (q - 1)
ArchiveTable(a, rc) ==
    LET n == NormalOffsets(rc)
    IN  IF rc \in DenseQuads
        THEN [k \in 1..4 |-> ArchiveStar(rc, DenseOffsets[k], DenseOffsets[k], a.amp)]
        ELSE IF a.kind = "full" \/ rc # a.quad
        THEN [k \in 1..3 |-> ArchiveStar(rc, n[k], n[k], 0)]
        ELSE IF a.kind = "empty" THEN << >>
        ELSE IF a.kind = "one" THEN << ArchiveStar(rc, n[1], n[1], 0) >>
        ELSE [k \in 1..3 |-> ArchiveStar(rc, n[k], SkylineOffsets(rc)[k], 0)]

\* The archive's stars of a quadrant with normal or dense offsets satisfy
\* sky = WorldCentre + M (pixel - P0) (+ amp * Conic), so that under wcs
\* (eta, nu) = KnownOffset + KnownTransform (x_image, y_image).
KnownTransform(q, wcs) ==
    LET m == QuadMatrix(q)
    IN  << RDiv(R(m[1]), wcs.cdelt[1]), RDiv(R(m[2]), wcs.cdelt[1]),
           RDiv(R(m[3]), wcs.cdelt[2]), RDiv(R(m[4]), wcs.cdelt[2]) >>
KnownOffset(q, wcs) ==
    LET m == QuadMatrix(q)
        p0 == QuadPixel0(q)
    IN  << RAdd(wcs.crpix[1],
                RDiv(R(WorldCentre[1] - m[1] * p0[1] - m[2] * p0[2]), wcs.cdelt[1])),
           RAdd(wcs.crpix[2],
                RDiv(R(WorldCentre[2] - m[3] * p0[1] - m[4] * p0[2]), wcs.cdelt[2])) >>

(***************************************************************************)
(* State.                                                                  *)
(***************************************************************************)
VARIABLES
    pc,             \* the cell (or loop) to execute next; "halted" after a fault
    fault,          \* the unhandled exception that halted the run, or "none"
    archive,        \* the remote archive (environment)
    fs,             \* the working directory: path -> lines of the file
    sci_header,     \* header of the template science image
    proj_wcs,       \* the projection of cell 13
    ccd, quadrant,  \* loop variables of the catalog loading loop
    df,             \* the seven lists of the loading loop, then the data frame
    xres, yres,     \* results of the latest eta fit and nu fit
    rcmeta,         \* quadrant -> affine model
    i,              \* loop variable of the rcmeta loop and of the assembly loop
    pv_start,       \* the ten distortion coefficients
    output_header,  \* the cards of the header, in order
    writes          \* executions of the header-writing cell so far

vars == <<pc, fault, archive, fs, sci_header, proj_wcs, ccd, quadrant, df,
          xres, yres, rcmeta, i, pv_start, output_header, writes>>

NoFault == [cell |-> "none", error |-> "none"]
NoFit == [formula |-> "none", params |-> << >>]
Empty == << >>
TELRAD == R(150)
TELDECD == R(30)
HeaderPath(rc) == <<"quadrant_", rc, ".ahead">>
StaleFile == << <<"COMMENT", "left by an earlier run">> >>

Init ==
    /\ pc = "sci_header"
    /\ fault = NoFault
    /\ archive \in Archives
    /\ fs \in {Empty, [p \in {HeaderPath(MY_RCID)} |-> StaleFile]}
    /\ sci_header = Empty
    /\ proj_wcs = Empty
    /\ ccd = 1
    /\ quadrant = 1
    /\ df = << >>
    /\ xres = NoFit
    /\ yres = NoFit
    /\ rcmeta = Empty
    /\ i = 0
    /\ pv_start = Empty
    /\ output_header = << >>
    /\ writes = 0

\* (variant) the exception is swallowed and the run goes on to the last cell
Swallow(error) ==
    /\ pc' = "write"
    /\ fault' = [cell |-> pc, error |-> error]
    /\ UNCHANGED <<archive, fs, sci_header, proj_wcs, ccd, quadrant, df,
                   xres, yres, rcmeta, i, pv_start, output_header, writes>>

\* an unhandled exception ends the run: nothing is assigned by the failing cell
Halt(error) ==
    /\ pc' = "halted"
    /\ fault' = [cell |-> pc, error |-> error]
    /\ UNCHANGED <<archive, fs, sci_header, proj_wcs, ccd, quadrant, df,
                   xres, yres, rcmeta, i, pv_start, output_header, writes>>

(***************************************************************************)
(* Cell 9: sci_header = fits.getheader(<science image of the template>)    *)
(***************************************************************************)
GetSciHeader ==
    /\ pc = "sci_header"
    /\ \E outcome \in {"ok", "retrieval"} :
         IF outcome = "ok"
         THEN /\ sci_header' = [TELRAD |-> TELRAD, TELDECD |-> TELDECD]
              /\ pc' = "proj_wcs"
              /\ UNCHANGED <<fault, archive, fs, proj_wcs, ccd, quadrant, df,
                             xres, yres, rcmeta, i, pv_start, output_header, writes>>
         ELSE Halt("retrieval failure")

(***************************************************************************)
(* Cell 13: the tangent-plane projection.  The notebook sets cdelt to      *)
(* [1.0, 1.0]; the model also runs it with the other members of Scales.    *)
(***************************************************************************)
ProjWcs(sci, s) ==
    [ ctype |-> <<"RA---TAN", "DEC--TAN">>,
      crval |-> <<sci.TELRAD, sci.TELDECD>>,
      cdelt |-> <<R(s), R(s)>>,
      crpix |-> <<PROJ_CRPIX, PROJ_CRPIX>> ]

MakeProjWcs ==
    /\ pc = "proj_wcs"
    /\ \E s \in Scales : proj_wcs' = ProjWcs(sci_header, s)
    /\ pc' = "load"
    /\ UNCHANGED <<fault, archive, fs, sci_header, ccd, quadrant, df,
                   xres, yres, rcmeta, i, pv_start, output_header, writes>>

\* (variant) a projection that leaves cdelt out
wcs_world2pix_unscaled(wcs, ra, dec) ==
    << RAdd(wcs.crpix[1], ra), RAdd(wcs.crpix[2], dec) >>

\* proj_wcs.wcs_world2pix(sky, 1): pixel = crpix + world / cdelt
wcs_world2pix(wcs, ra, dec) ==
    << RAdd(wcs.crpix[1], RDiv(ra, wcs.cdelt[1])),
       RAdd(wcs.crpix[2], RDiv(dec, wcs.cdelt[2])) >>

(***************************************************************************)
(* Cell 18: one iteration of the catalog loading loop.  download_file      *)
(* raises on a retrieval failure, header['rcid'] and tab[...] on a missing *)
(* key or column.                                                          *)
(***************************************************************************)
LoadedRows(wcs, rc, tab) ==
    [k \in 1..Len(tab) |->
        LET plane_coords == wcs_world2pix(wcs, tab[k].ra, tab[k].dec)
        IN  [ rcid |-> rc, x_image |-> tab[k].xpos, y_image |-> tab[k].ypos,
              eta |-> plane_coords[1], nu |-> plane_coords[2],
              ra |-> tab[k].ra, dec |-> tab[k].dec ]]

NextCcd(c, q) == IF q = NQUADRANT THEN c + 1 ELSE c
NextQuadrant(q) == IF q = NQUADRANT THEN 1 ELSE q + 1

LoadQuadrant ==
    /\ pc = "load"
    /\ \E outcome \in {"ok", "retrieval", "column"} :
         CASE outcome = "ok" ->
                /\ df' = df \o LoadedRows(proj_wcs, ArchiveRcid(ccd, quadrant),
                                          ArchiveTable(archive, ArchiveRcid(ccd, quadrant)))
                /\ ccd' = NextCcd(ccd, quadrant)
                /\ quadrant' = NextQuadrant(quadrant)
                /\ pc' = IF ccd = NCCD /\ quadrant = NQUADRANT THEN "frame" ELSE "load"
                /\ UNCHANGED <<fault, archive, fs, sci_header, proj_wcs,
                               xres, yres, rcmeta, i, pv_start, output_header, writes>>
           [] outcome = "retrieval" -> Halt("retrieval failure")
           [] OTHER -> Halt("KeyError")

(***************************************************************************)
(* Cells 19 and 21: the lists are stacked into the data frame df.          *)
(***************************************************************************)
MakeFrame ==
    /\ pc = "frame"
    /\ pc' = "fit_x"
    /\ UNCHANGED <<fault, archive, fs, sci_header, proj_wcs, ccd, quadrant, df,
                   xres, yres, rcmeta, i, pv_start, output_header, writes>>

(***************************************************************************)
(* Ordinary least squares, as statsmodels' OLS(...).fit() computes it:     *)
(* params = pinv(X) y, the least-squares solution (of least norm when X    *)
(* is rank deficient).                                                     *)
(***************************************************************************)
\* TLC works a function constructor out anew at each application; comparing
\* it makes TLC work it out once and keep the result.
Materialized(f) == IF f = f THEN f ELSE f

\* the value of a term of a formula on a row
TermValue(row, term) ==
    CASE term \in {"1", "Intercept"} -> R(1)
      [] term = "np.power(etalin, 2)" -> RMul(row.etalin, row.etalin)
      [] term = "np.power(nulin, 2)" -> RMul(row.nulin, row.nulin)
      [] term = "etalin:nulin" -> RMul(row.etalin, row.nulin)
      [] OTHER -> row[term]

\* the sum over rows lo..hi of the product of two terms
RECURSIVE SumProduct(_, _, _, _, _)
SumProduct(rows, s, t, lo, hi) ==
    IF lo > hi THEN R(0)
    ELSE IF lo = hi THEN RMul(TermValue(rows[lo], s), TermValue(rows[lo], t))
    ELSE RAdd(SumProduct(rows, s, t, lo, (lo + hi) \div 2),
              SumProduct(rows, s, t, (lo + hi) \div 2 + 1, hi))
Dot(rows, s, t) == SumProduct(rows, s, t, 1, Len(rows))

\* X'X and X'y of the regression of col on 1, x_image, y_image
AffineGram(rows) ==
    << <<Dot(rows, "1", "1"), Dot(rows, "1", "x_image"), Dot(rows, "1", "y_image")>>,
       <<Dot(rows, "1", "x_image"), Dot(rows, "x_image", "x_image"),
         Dot(rows, "x_image", "y_image")>>,
       <<Dot(rows, "1", "y_image"), Dot(rows, "x_image", "y_image"),
         Dot(rows, "y_image", "y_image")>> >>
AffineMoment(rows, col) ==
    <<Dot(rows, "1", col), Dot(rows, "x_image", col), Dot(rows, "y_image", col)>>
FullRank(rows) == ~RIsZero(Det3(AffineGram(rows)))

\* the unique least-squares (intercept, x slope, y slope) of a full-rank
\* quadrant: Cramer's rule on the normal equations g b = m
ReplaceColumn(g, j, m) ==
    LET Row(a) == <<IF j = 1 THEN m[a] ELSE g[a][1], IF j = 2 THEN m[a] ELSE g[a][2],
                    IF j = 3 THEN m[a] ELSE g[a][3]>>
    IN  <<Row(1), Row(2), Row(3)>>
Cramer(g, m, d) ==
    << RDiv(Det3(ReplaceColumn(g, 1, m)), d), RDiv(Det3(ReplaceColumn(g, 2, m)), d),
       RDiv(Det3(ReplaceColumn(g, 3, m)), d) >>
Solve(g, m) == Cramer(g, m, Det3(g))
AffineOLS(rows, col) == Solve(AffineGram(rows), AffineMoment(rows, col))

\* A quadrant holding a single star, whose slopes enter the design as the
\* reference quadrant's slopes (bx, by) plus its own terms: the least-norm
\* (intercept, x term, y term) that fits the star.
Scaled(f, row) == <<f, RMul(f, row.x_image), RMul(f, row.y_image)>>
LeastNormOneStar(row, col, bx, by) ==
    Scaled(RDiv(RSub(row[col], RAdd(RMul(bx, row.x_image), RMul(by, row.y_image))),
                RAdd(R(1), RAdd(RMul(row.x_image, row.x_image),
                                RMul(row.y_image, row.y_image)))),
           row)

Levels(d) == {d[k].rcid : k \in DOMAIN d}
Min(S) == CHOOSE m \in S : \A n \in S : m <= n
RowsOf(d, rc) == LET Keep(r) == r.rcid = rc IN SelectSeq(d, Keep)

\* names of regression terms: 'name' and 'template'.format(k)
Term(name) == <<name, -1>>
Format(template, k) == <<template, k>>

\* the designs pinv is worked out for: the reference quadrant of full rank,
\* every other quadrant of full rank or holding a single star
RankDeficient(d) == \E rc \in Levels(d) : ~FullRank(RowsOf(d, rc))
Workable(d) ==
    /\ Levels(d) # {}
    /\ FullRank(RowsOf(d, Min(Levels(d))))
    /\ \A rc \in Levels(d) : FullRank(RowsOf(d, rc)) \/ Len(RowsOf(d, rc)) = 1

(***************************************************************************)
(* Cells 30-36: col ~ x_image + y_image + C(rcid) - 1 + C(rcid)*x_image    *)
(* + C(rcid)*y_image.  The design has an indicator C(rcid)[k] per level k  *)
(* of rcid present in df, x_image and y_image, and for each level but the  *)
(* lowest the products C(rcid)[T.k]:x_image and C(rcid)[T.k]:y_image.      *)
(***************************************************************************)
TermNames(levels, ref) ==
    {Term("x_image"), Term("y_image")}
    \cup {Format("C(rcid)[{}]", rc) : rc \in levels}
    \cup {Format("C(rcid)[T.{}]:x_image", rc) : rc \in levels \ {ref}}
    \cup {Format("C(rcid)[T.{}]:y_image", rc) : rc \in levels \ {ref}}

\* a quadrant's own terms: its intercept and its slopes less the reference's
Relative(b, base) == <<b[1], RSub(b[2], base[2]), RSub(b[3], base[3])>>
OwnTerms(rows, col, base) ==
    IF FullRank(rows)
    THEN Relative(AffineOLS(rows, col), base)
    ELSE LeastNormOneStar(rows[1], col, base[2], base[3])

ParamsTable(names, base, own) ==
    [n \in names |->
        CASE n = Term("x_image") -> base[2]
          [] n = Term("y_image") -> base[3]
          [] n[1] = "C(rcid)[{}]" -> own[n[2]][1]
          [] n[1] = "C(rcid)[T.{}]:x_image" -> own[n[2]][2]
          [] OTHER -> own[n[2]][3]]

LinearParamsFrom(d, col, levels, base) ==
    ParamsTable(TermNames(levels, Min(levels)), base,
                Materialized([rc \in levels |-> OwnTerms(RowsOf(d, rc), col, base)]))

LinearParams(d, col) ==
    LinearParamsFrom(d, col, Levels(d), AffineOLS(RowsOf(d, Min(Levels(d))), col))

FitLinearX ==
    /\ pc = "fit_x"
    /\ Workable(df)
    /\ xres' = [formula |-> "linear", params |-> LinearParams(df, "eta")]
    /\ pc' = "fit_y"
    /\ UNCHANGED <<fault, archive, fs, sci_header, proj_wcs, ccd, quadrant, df,
                   yres, rcmeta, i, pv_start, output_header, writes>>

FitLinearY ==
    /\ pc = "fit_y"
    /\ yres' = [formula |-> "linear", params |-> LinearParams(df, "nu")]
    /\ pc' = "rcmeta"
    /\ UNCHANGED <<fault, archive, fs, sci_header, proj_wcs, ccd, quadrant, df,
                   xres, rcmeta, i, pv_start, output_header, writes>>

(***************************************************************************)
(* Cell 41: one iteration of the rcmeta loop.                              *)
(***************************************************************************)
\* (variant) get with a default of zero: params.get(name, 0.0)
ParamsGetOrZero(params, name) == IF name \in DOMAIN params THEN params[name] ELSE R(0)

\* pandas Series.get(name): the value, or None when the name is absent
ParamsGet(params, name) == IF name \in DOMAIN params THEN params[name] ELSE None

\* float + None, and -None, raise TypeError; None stands for the raise
PyAdd(a, b) == IF IsNone(a) \/ IsNone(b) THEN None ELSE RAdd(a, b)
PyNeg(a) == IF IsNone(a) THEN None ELSE RNeg(a)

\* (variant) every quadrant is given the reference quadrant's block
CdOfReference(xp, yp, k) ==
    << ParamsGet(xp, Term("x_image")), ParamsGet(xp, Term("y_image")),
       ParamsGet(yp, Term("x_image")), ParamsGet(yp, Term("y_image")) >>
\* (variant) the base coefficients are not added to the interaction terms
CdOfInteraction(xp, yp, k) ==
    IF k > 0
    THEN << ParamsGet(xp, Format("C(rcid)[T.{}]:x_image", k)),
            ParamsGet(xp, Format("C(rcid)[T.{}]:y_image", k)),
            ParamsGet(yp, Format("C(rcid)[T.{}]:x_image", k)),
            ParamsGet(yp, Format("C(rcid)[T.{}]:y_image", k)) >>
    ELSE << ParamsGet(xp, Term("x_image")), ParamsGet(xp, Term("y_image")),
            ParamsGet(yp, Term("x_image")), ParamsGet(yp, Term("y_image")) >>

\* lines 394-402: <<cd11, cd12, cd21, cd22>>
CdOf(xp, yp, k) ==
    LET cd11 == ParamsGet(xp, Term("x_image"))
        cd12 == ParamsGet(xp, Term("y_image"))
        cd21 == ParamsGet(yp, Term("x_image"))
        cd22 == ParamsGet(yp, Term("y_image"))
    IN  IF k > 0
        THEN << PyAdd(cd11, ParamsGet(xp, Format("C(rcid)[T.{}]:x_image", k))),
                PyAdd(cd12, ParamsGet(xp, Format("C(rcid)[T.{}]:y_image", k))),
                PyAdd(cd21, ParamsGet(yp, Format("C(rcid)[T.{}]:x_image", k))),
                PyAdd(cd22, ParamsGet(yp, Format("C(rcid)[T.{}]:y_image", k))) >>
        ELSE <<cd11, cd12, cd21, cd22>>

\* (variant) every quadrant is given the reference quadrant's offset
OffsetDegreesOfReference(xp, yp, k) ==
    << PyNeg(ParamsGet(xp, Format("C(rcid)[{}]", 0))),
       PyNeg(ParamsGet(yp, Format("C(rcid)[{}]", 0))) >>

\* lines 405-406
OffsetDegrees(xp, yp, k) ==
    << PyNeg(ParamsGet(xp, Format("C(rcid)[{}]", k))),
       PyNeg(ParamsGet(yp, Format("C(rcid)[{}]", k))) >>

Det(cd) == Det2(cd[1], cd[2], cd[3], cd[4])
\* cd**-1, for Det(cd) # 0
Inverse(cd) ==
    << RDiv(cd[4], Det(cd)), RDiv(RNeg(cd[2]), Det(cd)),
       RDiv(RNeg(cd[3]), Det(cd)), RDiv(cd[1], Det(cd)) >>
MatVec(m, v) ==
    << RAdd(RMul(m[1], v[1]), RMul(m[2], v[2])),
       RAdd(RMul(m[3], v[1]), RMul(m[4], v[2])) >>

\* lines 403-409
AffineModel(cd, offset_degrees) ==
    LET invcd == Inverse(cd)
        offset_pix == MatVec(invcd, offset_degrees)
    IN  [ cd11 |-> cd[1], cd12 |-> cd[2], cd21 |-> cd[3], cd22 |-> cd[4],
          crpix1 |-> offset_pix[1], crpix2 |-> offset_pix[2] ]

HasNone(t) == \E k \in DOMAIN t : IsNone(t[k])

RcmetaStep ==
    /\ pc = "rcmeta"
    /\ LET cd == CdOf(xres.params, yres.params, i)
           offset_degrees == OffsetDegrees(xres.params, yres.params, i)
       IN  CASE HasNone(cd) -> Halt("TypeError")
             [] ~HasNone(cd) /\ RIsZero(Det(cd)) -> Halt("LinAlgError")
             [] ~HasNone(cd) /\ ~RIsZero(Det(cd)) /\ HasNone(offset_degrees) ->
                    Halt("TypeError")
             [] OTHER ->
                    /\ rcmeta' = [k \in DOMAIN rcmeta \cup {i} |->
                                    IF k = i THEN AffineModel(cd, offset_degrees)
                                    ELSE rcmeta[k]]
                    /\ i' = IF i = NRCID - 1 THEN 0 ELSE i + 1
                    /\ pc' = IF i = NRCID - 1 THEN "global_init" ELSE "rcmeta"
                    /\ UNCHANGED <<fault, archive, fs, sci_header, proj_wcs, ccd,
                                   quadrant, df, xres, yres, pv_start,
                                   output_header, writes>>

(***************************************************************************)
(* Cell 49: the global columns start as copies.                            *)
(***************************************************************************)
WithGlobalColumns(row) ==
    [ rcid |-> row.rcid, x_image |-> row.x_image, y_image |-> row.y_image,
      eta |-> row.eta, nu |-> row.nu, ra |-> row.ra, dec |-> row.dec,
      x_global |-> row.x_image, y_global |-> row.y_image,
      etalin |-> row.eta, nulin |-> row.nu ]

InitGlobal ==
    /\ pc = "global_init"
    /\ df' = [k \in DOMAIN df |-> WithGlobalColumns(df[k])]
    /\ pc' = "assemble"
    /\ UNCHANGED <<fault, archive, fs, sci_header, proj_wcs, ccd, quadrant,
                   xres, yres, rcmeta, i, pv_start, output_header, writes>>

(***************************************************************************)
(* Cell 50: one iteration of the assembly loop.                            *)
(***************************************************************************)
\* (variant) the pixel origin is added, not subtracted
ShiftedBack(row, m) ==
    [row EXCEPT !.x_global = RAdd(row.x_image, m.crpix1),
                !.y_global = RAdd(row.y_image, m.crpix2)]

\* lines 496-497, then 498-501 on the new x_global, y_global
Shifted(row, m) ==
    [row EXCEPT !.x_global = RSub(row.x_image, m.crpix1),
                !.y_global = RSub(row.y_image, m.crpix2)]
Linearized(row, m) ==
    [row EXCEPT !.etalin = RAdd(RMul(row.x_global, m.cd11), RMul(row.y_global, m.cd12)),
                !.nulin = RAdd(RMul(row.x_global, m.cd21), RMul(row.y_global, m.cd22))]
Assembled(row, m) == Linearized(Shifted(row, m), m)

\* (variant) the assignment is not restricted to the rows of quadrant i
AssembleEveryRow ==
    /\ pc = "assemble"
    /\ df' = [k \in DOMAIN df |-> Assembled(df[k], rcmeta[i])]
    /\ i' = IF i = NRCID - 1 THEN 0 ELSE i + 1
    /\ pc' = IF i = NRCID - 1 THEN "quad_x" ELSE "assemble"
    /\ UNCHANGED <<fault, archive, fs, sci_header, proj_wcs, ccd, quadrant,
                   xres, yres, rcmeta, pv_start, output_header, writes>>

AssembleStep ==
    /\ pc = "assemble"
    /\ IF i \in DOMAIN rcmeta
       THEN /\ df' = [k \in DOMAIN df |->
                        IF df[k].rcid = i THEN Assembled(df[k], rcmeta[i]) ELSE df[k]]
            /\ i' = IF i = NRCID - 1 THEN 0 ELSE i + 1
            /\ pc' = IF i = NRCID - 1 THEN "quad_x" ELSE "assemble"
            /\ UNCHANGED <<fault, archive, fs, sci_header, proj_wcs, ccd, quadrant,
                           xres, yres, rcmeta, pv_start, output_header, writes>>
       ELSE Halt("KeyError")

(***************************************************************************)
(* Cells 53-57: col ~ np.power(etalin,2) + np.power(nulin,2) +             *)
(* etalin*nulin + etalin + nulin, fitted to the whole frame.  The result   *)
(* is the coefficient vector that satisfies the normal equations           *)
(* X'(y - X b) = 0; it is looked for among the polynomials that displace   *)
(* a point along Conic about some centre.                                  *)
(***************************************************************************)
QuadTerms ==
    {"Intercept", "np.power(etalin, 2)", "np.power(nulin, 2)", "etalin", "nulin",
     "etalin:nulin"}

Predicted(row, b) ==
    RAdd(RAdd(b[Term("Intercept")], RMul(b[Term("etalin")], row.etalin)),
         RAdd(RAdd(RMul(b[Term("nulin")], row.nulin),
                   RMul(b[Term("np.power(etalin, 2)")], TermValue(row, "np.power(etalin, 2)"))),
              RAdd(RMul(b[Term("np.power(nulin, 2)")], TermValue(row, "np.power(nulin, 2)")),
                   RMul(b[Term("etalin:nulin")], TermValue(row, "etalin:nulin")))))
Residuals(d, col, b) == Materialized([k \in DOMAIN d |-> RSub(d[k][col], Predicted(d[k], b))])

\* the sum over rows lo..hi of residual times term
RECURSIVE SumResidual(_, _, _, _, _)
SumResidual(d, resid, t, lo, hi) ==
    IF lo > hi THEN R(0)
    ELSE IF lo = hi THEN RMul(resid[lo], TermValue(d[lo], t))
    ELSE RAdd(SumResidual(d, resid, t, lo, (lo + hi) \div 2),
              SumResidual(d, resid, t, (lo + hi) \div 2 + 1, hi))
Orthogonal(d, resid) == \A t \in QuadTerms : RIsZero(SumResidual(d, resid, t, 1, Len(d)))
NormalEquations(d, col, b) == Orthogonal(d, Residuals(d, col, b))

\* col displaced by k * Conic(etalin - u0, nulin - v0), as a coefficient vector
ConicPolynomial(col, k, u0, v0) ==
    [n \in {Term(t) : t \in QuadTerms} |->
        CASE n = Term("Intercept") -> RMul(k, RSub(RMul(u0, u0), RMul(u0, v0)))
          [] n = Term("etalin") ->
                RAdd(IF col = "eta" THEN R(1) ELSE R(0),
                     RMul(k, RSub(v0, RAdd(u0, u0))))
          [] n = Term("nulin") ->
                RAdd(IF col = "nu" THEN R(1) ELSE R(0), RMul(k, u0))
          [] n = Term("np.power(etalin, 2)") -> k
          [] n = Term("etalin:nulin") -> RNeg(k)
          [] OTHER -> R(0)]
CandidateSlopes == {R(a * s * m) : a \in 0..MaxAmp, s \in Scales, m \in {1, 2}}
Candidates(col, wcs) ==
    LET c == wcs_world2pix(wcs, R(WorldCentre[1]), R(WorldCentre[2]))
    IN  {ConicPolynomial(col, k, c[1], c[2]) : k \in CandidateSlopes}

FitQuadX ==
    /\ pc = "quad_x"
    /\ \E b \in Candidates("eta", proj_wcs) :
         /\ NormalEquations(df, "eta", b)
         /\ xres' = [formula |-> "quadratic", params |-> b]
    /\ pc' = "quad_y"
    /\ UNCHANGED <<fault, archive, fs, sci_header, proj_wcs, ccd, quadrant, df,
                   yres, rcmeta, i, pv_start, output_header, writes>>

FitQuadY ==
    /\ pc = "quad_y"
    /\ \E b \in Candidates("nu", proj_wcs) :
         /\ NormalEquations(df, "nu", b)
         /\ yres' = [formula |-> "quadratic", params |-> b]
    /\ pc' = "pv_start"
    /\ UNCHANGED <<fault, archive, fs, sci_header, proj_wcs, ccd, quadrant, df,
                   xres, rcmeta, i, pv_start, output_header, writes>>

(***************************************************************************)
(* Cell 64: pv_start.  float(None) raises TypeError.                       *)
(***************************************************************************)
\* (variant) the second axis's linear terms are not swapped
PvStartLinearUnswapped(xp, yp) ==
    [ PV1_1 |-> ParamsGet(xp, Term("etalin")),
      PV1_2 |-> ParamsGet(xp, Term("nulin")),
      PV1_4 |-> ParamsGet(xp, Term("np.power(etalin, 2)")),
      PV1_5 |-> ParamsGet(xp, Term("etalin:nulin")),
      PV1_6 |-> ParamsGet(xp, Term("np.power(nulin, 2)")),
      PV2_1 |-> ParamsGet(yp, Term("etalin")),
      PV2_2 |-> ParamsGet(yp, Term("nulin")),
      PV2_4 |-> ParamsGet(yp, Term("np.power(nulin, 2)")),
      PV2_5 |-> ParamsGet(yp, Term("etalin:nulin")),
      PV2_6 |-> ParamsGet(yp, Term("np.power(etalin, 2)")) ]

PvStart(xp, yp) ==
    [ PV1_1 |-> ParamsGet(xp, Term("etalin")),
      PV1_2 |-> ParamsGet(xp, Term("nulin")),
      PV1_4 |-> ParamsGet(xp, Term("np.power(etalin, 2)")),
      PV1_5 |-> ParamsGet(xp, Term("etalin:nulin")),
      PV1_6 |-> ParamsGet(xp, Term("np.power(nulin, 2)")),
      PV2_1 |-> ParamsGet(yp, Term("nulin")),
      PV2_2 |-> ParamsGet(yp, Term("etalin")),
      PV2_4 |-> ParamsGet(yp, Term("np.power(nulin, 2)")),
      PV2_5 |-> ParamsGet(yp, Term("etalin:nulin")),
      PV2_6 |-> ParamsGet(yp, Term("np.power(etalin, 2)")) ]

MakePvStart ==
    /\ pc = "pv_start"
    /\ IF HasNone(PvStart(xres.params, yres.params))
       THEN Halt("TypeError")
       ELSE /\ pv_start' = PvStart(xres.params, yres.params)
            /\ pc' = "header"
            /\ UNCHANGED <<fault, archive, fs, sci_header, proj_wcs, ccd, quadrant, df,
                           xres, yres, rcmeta, i, output_header, writes>>

(***************************************************************************)
(* Cells 72-74: the header of quadrant my_rcid = 32, card by card.         *)
(***************************************************************************)
OutputHeader(sci, m, pv) ==
    << <<"NAXIS", 2>>, <<"NAXIS1", 3072>>, <<"NAXIS2", 3080>>,
       <<"CTYPE1", "RA---TPV">>, <<"CTYPE2", "DEC--TPV">>,
       <<"CRVAL1", sci.TELRAD>>, <<"CRVAL2", sci.TELDECD>>,
       <<"CRPIX1", m.crpix1>>, <<"CRPIX2", m.crpix2>>,
       <<"CD1_1", m.cd11>>, <<"CD1_2", m.cd12>>,
       <<"CD2_1", m.cd21>>, <<"CD2_2", m.cd22>>,
       <<"PV1_1", pv.PV1_1>>, <<"PV1_2", pv.PV1_2>>, <<"PV1_4", pv.PV1_4>>,
       <<"PV1_5", pv.PV1_5>>, <<"PV1_6", pv.PV1_6>>,
       <<"PV2_1", pv.PV2_1>>, <<"PV2_2", pv.PV2_2>>, <<"PV2_4", pv.PV2_4>>,
       <<"PV2_5", pv.PV2_5>>, <<"PV2_6", pv.PV2_6>> >>

\* (variant) the header is built from the reference quadrant's entry
MakeHeaderOfReference ==
    /\ pc = "header"
    /\ output_header' = OutputHeader(sci_header, rcmeta[0], pv_start)
    /\ pc' = "write"
    /\ UNCHANGED <<fault, archive, fs, sci_header, proj_wcs, ccd, quadrant, df,
                   xres, yres, rcmeta, i, pv_start, writes>>

MakeHeader ==
    /\ pc = "header"
    /\ IF MY_RCID \in DOMAIN rcmeta
       THEN /\ output_header' = OutputHeader(sci_header, rcmeta[MY_RCID], pv_start)
            /\ pc' = "write"
            /\ UNCHANGED <<fault, archive, fs, sci_header, proj_wcs, ccd, quadrant, df,
                           xres, yres, rcmeta, i, pv_start, writes>>
       ELSE Halt("KeyError")

(***************************************************************************)
(* Cell 76: output_header.totextfile('quadrant_32.ahead', overwrite=True). *)
(* The cell can be executed again once it has run.                         *)
(***************************************************************************)
\* one line per card
CardImage(card) == <<card[1], "=", card[2]>>
TextOf(header) == [k \in DOMAIN header |-> CardImage(header[k])]
\* (variant) the lines are appended to a file that exists
Appended(files, path, lines) ==
    [p \in DOMAIN files \cup {path} |->
        IF p # path THEN files[p]
        ELSE IF p \in DOMAIN files THEN files[p] \o lines ELSE lines]
\* the directory after path is opened for writing and lines are written
Written(files, path, lines) ==
    [p \in DOMAIN files \cup {path} |-> IF p = path THEN lines ELSE files[p]]

WriteHeader ==
    /\ pc \in {"write", "done"}
    /\ writes < MaxWrites
    /\ fs' = Written(fs, HeaderPath(MY_RCID), TextOf(output_header))
    /\ writes' = writes + 1
    /\ pc' = "done"
    /\ UNCHANGED <<fault, archive, sci_header, proj_wcs, ccd, quadrant, df,
                   xres, yres, rcmeta, i, pv_start, output_header>>

Next ==
    \/ GetSciHeader
    \/ MakeProjWcs
    \/ LoadQuadrant
    \/ MakeFrame
    \/ FitLinearX
    \/ FitLinearY
    \/ RcmetaStep
    \/ InitGlobal
    \/ AssembleStep
    \/ FitQuadX
    \/ FitQuadY
    \/ MakePvStart
    \/ MakeHeader
    \/ WriteHeader

Spec == Init /\ [][Next]_vars

(***************************************************************************)
(* Properties.                                                             *)
(***************************************************************************)
LinearBound == xres.formula = "linear" /\ yres.formula = "linear"
QuadraticBound == xres.formula = "quadratic" /\ yres.formula = "quadratic"
\* the rcmeta loop is over: it ran through, or an iteration raised
TableSettled == pc = "global_init" \/ (pc = "halted" /\ fault.cell = "rcmeta")
\* iteration q of the rcmeta loop has been run
Attempted(q) == pc = "global_init" \/ (pc = "halted" /\ fault.cell = "rcmeta" /\ i >= q)
CdBlock(m) == <<m.cd11, m.cd12, m.cd21, m.cd22>>
Crpix(m) == <<m.crpix1, m.crpix2>>
\* the affine model that the terms named for quadrant q give
ModelFromTerms(xp, yp, q) == AffineModel(CdOf(xp, yp, q), OffsetDegrees(xp, yp, q))
HeaderKeys ==
    << "NAXIS", "NAXIS1", "NAXIS2", "CTYPE1", "CTYPE2", "CRVAL1", "CRVAL2",
       "CRPIX1", "CRPIX2", "CD1_1", "CD1_2", "CD2_1", "CD2_2",
       "PV1_1", "PV1_2", "PV1_4", "PV1_5", "PV1_6",
       "PV2_1", "PV2_2", "PV2_4", "PV2_5", "PV2_6" >>
KeysOf(cards) == [k \in DOMAIN cards |-> cards[k][1]]
ValueOf(cards, key) == cards[CHOOSE k \in DOMAIN cards : cards[k][1] = key][2]

\* C1: the header built for quadrant MY_RCID has exactly the 23 keys of
\* HeaderKeys (no PV1_0, no PV2_0); its CD and CRPIX values are those of the
\* affine model that the linear fit of the frame gives for MY_RCID, its ten
\* PV values are the coefficients of the quadratic fit now bound to xres and
\* yres, and CRVAL1, CRVAL2 are the reference position of sci_header; the
\* file, once written, has the same keys.
C1_HeaderSchema ==
    pc \in {"write", "done"} =>
        LET h == output_header
            m == ModelFromTerms(LinearParams(df, "eta"), LinearParams(df, "nu"), MY_RCID)
            pv == PvStart(xres.params, yres.params)
        IN  /\ KeysOf(h) = HeaderKeys
            /\ QuadraticBound
            /\ <<ValueOf(h, "CD1_1"), ValueOf(h, "CD1_2"), ValueOf(h, "CD2_1"),
                 ValueOf(h, "CD2_2")>> = CdBlock(m)
            /\ <<ValueOf(h, "CRPIX1"), ValueOf(h, "CRPIX2")>> = Crpix(m)
            /\ \A key \in DOMAIN pv : ValueOf(h, key) = pv[key]
            /\ ValueOf(h, "CRVAL1") = sci_header.TELRAD
            /\ ValueOf(h, "CRVAL2") = sci_header.TELDECD
            /\ writes > 0 => KeysOf(fs[HeaderPath(MY_RCID)]) = HeaderKeys
\* the header file is written, and its CD block is not its distortion set
C1_Witness ==
    /\ pc = "done"
    /\ writes > 0
    /\ proj_wcs.cdelt[1] = R(1)
    /\ archive.amp > 0
    /\ ValueOf(output_header, "PV1_4") # R(0)
    /\ ValueOf(output_header, "CD1_1") # ValueOf(output_header, "PV1_1")

Fitted(row, xp, yp) ==
    LET cd == CdOf(xp, yp, row.rcid)
    IN  << RAdd(ParamsGet(xp, Format("C(rcid)[{}]", row.rcid)),
                RAdd(RMul(cd[1], row.x_image), RMul(cd[2], row.y_image))),
           RAdd(ParamsGet(yp, Format("C(rcid)[{}]", row.rcid)),
                RAdd(RMul(cd[3], row.x_image), RMul(cd[4], row.y_image))) >>
\* row k has been through the assembly loop
IsAssembled(k) == pc = "quad_x" \/ (pc = "assemble" /\ df[k].rcid < i)

\* C3: while the linear fit is bound to xres and yres, every stored quadrant
\* has cd crpix + offset = 0 on both axes, and every row that the assembly
\* loop has processed has (etalin, nulin) equal to the linear model's fitted
\* (eta, nu) of that row.
C3_OriginIsZeroPoint ==
    LinearBound =>
        /\ \A q \in DOMAIN rcmeta :
              MatVec(CdBlock(rcmeta[q]), Crpix(rcmeta[q]))
                = << RNeg(ParamsGet(xres.params, Format("C(rcid)[{}]", q))),
                     RNeg(ParamsGet(yres.params, Format("C(rcid)[{}]", q))) >>
        /\ pc \in {"assemble", "quad_x"} =>
              \A k \in DOMAIN df :
                 IsAssembled(k) =>
                    <<df[k].etalin, df[k].nulin>> = Fitted(df[k], xres.params, yres.params)
\* assembly is over, and a star of the dense quadrant lies off the linear
\* model: its etalin is the fitted value, not its eta
C3_Witness ==
    /\ pc = "quad_x"
    /\ LinearBound
    /\ \E k \in DOMAIN df :
          /\ df[k].rcid \in DenseQuads
          /\ df[k].etalin # df[k].eta
          /\ df[k].etalin = Fitted(df[k], xres.params, yres.params)[1]

\* C4 as stated: the swap is in the second axis's quadratic terms only, so
\* PV2_1 and PV2_2 are the nu fit's coefficients of etalin and of nulin.
C4_SwapOnlyInQuadraticTerms ==
    pc \in {"header", "write", "done"} =>
        /\ pv_start.PV1_1 = xres.params[Term("etalin")]
        /\ pv_start.PV1_2 = xres.params[Term("nulin")]
        /\ pv_start.PV1_4 = xres.params[Term("np.power(etalin, 2)")]
        /\ pv_start.PV1_5 = xres.params[Term("etalin:nulin")]
        /\ pv_start.PV1_6 = xres.params[Term("np.power(nulin, 2)")]
        /\ pv_start.PV2_1 = yres.params[Term("etalin")]
        /\ pv_start.PV2_2 = yres.params[Term("nulin")]
        /\ pv_start.PV2_4 = yres.params[Term("np.power(nulin, 2)")]
        /\ pv_start.PV2_5 = yres.params[Term("etalin:nulin")]
        /\ pv_start.PV2_6 = yres.params[Term("np.power(etalin, 2)")]
\* C4: PV1_1, PV1_2, PV1_4, PV1_5, PV1_6 are the eta fit's coefficients of
\* etalin, nulin, etalin^2, etalin*nulin, nulin^2; the second axis has the
\* two coordinates swapped in every term: PV2_1, PV2_2, PV2_4, PV2_5, PV2_6
\* are the nu fit's coefficients of nulin, etalin, nulin^2, etalin*nulin,
\* etalin^2.
C4_DistortionNaming ==
    pc \in {"header", "write", "done"} =>
        /\ QuadraticBound
        /\ DOMAIN pv_start = {"PV1_1", "PV1_2", "PV1_4", "PV1_5", "PV1_6",
                              "PV2_1", "PV2_2", "PV2_4", "PV2_5", "PV2_6"}
        /\ pv_start.PV1_1 = xres.params[Term("etalin")]
        /\ pv_start.PV1_2 = xres.params[Term("nulin")]
        /\ pv_start.PV1_4 = xres.params[Term("np.power(etalin, 2)")]
        /\ pv_start.PV1_5 = xres.params[Term("etalin:nulin")]
        /\ pv_start.PV1_6 = xres.params[Term("np.power(nulin, 2)")]
        /\ pv_start.PV2_1 = yres.params[Term("nulin")]
        /\ pv_start.PV2_2 = yres.params[Term("etalin")]
        /\ pv_start.PV2_4 = yres.params[Term("np.power(nulin, 2)")]
        /\ pv_start.PV2_5 = yres.params[Term("etalin:nulin")]
        /\ pv_start.PV2_6 = yres.params[Term("np.power(etalin, 2)")]
\* the coefficients are extracted from a nu fit whose coefficients of etalin,
\* nulin, etalin^2 and nulin^2 all differ pairwise where it matters
C4_Witness ==
    /\ pc = "header"
    /\ proj_wcs.cdelt[1] = R(1)
    /\ yres.params[Term("etalin")] # yres.params[Term("nulin")]
    /\ yres.params[Term("np.power(etalin, 2)")] # yres.params[Term("np.power(nulin, 2)")]
    /\ xres.params[Term("np.power(etalin, 2)")] # xres.params[Term("np.power(nulin, 2)")]
    /\ pv_start.PV2_1 = yres.params[Term("nulin")]

\* the model of a quadrant from the regression of its own rows alone
OwnModel(rows) ==
    LET bx == AffineOLS(rows, "eta")
        by == AffineOLS(rows, "nu")
    IN  AffineModel(<<bx[2], bx[3], by[2], by[3]>>, <<RNeg(bx[1]), RNeg(by[1])>>)
\* the linearized coordinates that rcmeta gives a row
LinearizedBy(m, row) ==
    << RAdd(RMul(RSub(row.x_image, m.crpix1), m.cd11),
            RMul(RSub(row.y_image, m.crpix2), m.cd12)),
       RAdd(RMul(RSub(row.x_image, m.crpix1), m.cd21),
            RMul(RSub(row.y_image, m.crpix2), m.cd22)) >>

\* C5: when the assembly starts, rcmeta holds exactly the entries 0..63;
\* the rows tagged q are the stars of the archive's catalog of quadrant q,
\* entry q is the model that the terms named for q give, which for a
\* quadrant of full rank is the regression of the rows tagged q alone; and
\* when the quadratic fit starts (and ever after) every row of the frame
\* holds the linearized coordinates that its quadrant's entry gives.
C5_CompleteUpstream ==
    /\ pc \in {"global_init", "assemble"} => DOMAIN rcmeta = 0..(NRCID - 1)
    /\ pc = "global_init" =>
          \A q \in 0..(NRCID - 1) :
             /\ RowsOf(df, q) = LoadedRows(proj_wcs, q, ArchiveTable(archive, q))
             /\ rcmeta[q] = ModelFromTerms(xres.params, yres.params, q)
             /\ FullRank(RowsOf(df, q)) => rcmeta[q] = OwnModel(RowsOf(df, q))
    /\ (pc \in {"quad_x", "quad_y"} \/ xres.formula = "quadratic") =>
          /\ DOMAIN rcmeta = 0..(NRCID - 1)
          /\ Levels(df) = 0..(NRCID - 1)
          /\ \A k \in DOMAIN df :
                <<df[k].etalin, df[k].nulin>> = LinearizedBy(rcmeta[df[k].rcid], df[k])
\* the quadratic fit is about to start on a frame of all 64 quadrants in
\* which the last quadrant's rows are linearized by its own entry, not by
\* the reference quadrant's
C5_Witness ==
    /\ pc = "quad_x"
    /\ DOMAIN rcmeta = 0..(NRCID - 1)
    /\ \E k \in DOMAIN df :
          /\ df[k].rcid = NRCID - 1
          /\ <<df[k].etalin, df[k].nulin>> = LinearizedBy(rcmeta[NRCID - 1], df[k])
          /\ <<df[k].etalin, df[k].nulin>> # LinearizedBy(rcmeta[0], df[k])

\* the working directory is as it was before the run
Untouched == DOMAIN fs = {} \/ fs[HeaderPath(MY_RCID)] = StaleFile
NoGlobalColumns == \A k \in DOMAIN df : "etalin" \notin DOMAIN df[k]
HaltedClean ==
    /\ writes = 0
    /\ Untouched
    /\ output_header = << >>
    /\ DOMAIN pv_start = {}
    /\ ~QuadraticBound
    /\ NoGlobalColumns
    /\ fault.cell \in {"sci_header", "load", "rcmeta"}
    /\ fault.cell = "sci_header" => DOMAIN sci_header = {} /\ df = << >>
    /\ fault.cell \in {"sci_header", "load"} =>
          xres.formula = "none" /\ yres.formula = "none" /\ DOMAIN rcmeta = {}
    /\ fault.cell = "rcmeta" => DOMAIN rcmeta = 0..(i - 1)
RanThrough ==
    /\ pc = "done"
    /\ fault = NoFault
    /\ DOMAIN rcmeta = 0..(NRCID - 1)
    /\ QuadraticBound
    /\ KeysOf(output_header) = HeaderKeys
FaultState ==
    /\ (pc = "halted") = (fault # NoFault)
    /\ pc = "halted" => HaltedClean
    /\ writes > 0 => RanThrough

ZeroStars(q) == q \notin Levels(df)
SingularBlock(q) ==
    LET cd == CdOf(xres.params, yres.params, q)
    IN  ~HasNone(cd) /\ RIsZero(Det(cd))
OwnFitted(rows) ==
    LET bx == AffineOLS(rows, "eta")
        by == AffineOLS(rows, "nu")
    IN  [k \in DOMAIN rows |->
            << RAdd(bx[1], RAdd(RMul(bx[2], rows[k].x_image), RMul(bx[3], rows[k].y_image))),
               RAdd(by[1], RAdd(RMul(by[2], rows[k].x_image), RMul(by[3], rows[k].y_image))) >>]
Collinear(p, q, r) ==
    RIsZero(Det2(RSub(q[1], p[1]), RSub(q[2], p[2]), RSub(r[1], p[1]), RSub(r[2], p[2])))
Spread(points) ==
    \E a \in DOMAIN points, b \in DOMAIN points, c \in DOMAIN points :
        ~Collinear(points[a], points[b], points[c])
Stored(q) == q \in DOMAIN rcmeta /\ ~RIsZero(Det(CdBlock(rcmeta[q])))

RECURSIVE FrameOf(_, _, _)
FrameOf(a, wcs, n) ==
    IF n = 0 THEN << >>
    ELSE FrameOf(a, wcs, n - 1) \o LoadedRows(wcs, n - 1, ArchiveTable(a, n - 1))
\* rcmeta as the rcmeta loop derives it from frame d
TableOf(d) ==
    LET xp == LinearParams(d, "eta")
        yp == LinearParams(d, "nu")
    IN  [q \in 0..(NRCID - 1) |-> ModelFromTerms(xp, yp, q)]
\* rcmeta of a run on the same archive with cdelt = [s, s]
TableAt(s) == TableOf(FrameOf(archive, ProjWcs(sci_header, s), NRCID))
OwnScale == proj_wcs.cdelt[1]
Times(f, v) == [k \in DOMAIN v |-> RMul(f, v[k])]

\* C9 as stated: the run's affine table, and the CD and CRPIX values of its
\* header, are those of a run on the same archive with any other scale.
C9_ScaleCancels ==
    /\ pc = "global_init" => \A s \in Scales : rcmeta = TableAt(s)
    /\ pc = "write" =>
          \A s \in Scales :
             /\ ValueOf(output_header, "CD1_1") = TableAt(s)[MY_RCID].cd11
             /\ ValueOf(output_header, "CRPIX1") = TableAt(s)[MY_RCID].crpix1
\* C9: the scale does not cancel.  For a quadrant with at least three stars
\* not collinear in pixel coordinates, the block is inversely proportional
\* to the scale (r cd_r = s cd_s for scales r and s) and the pixel origin
\* moves with it (r cd_r (crpix_r - crpix_s) = 4.5 (s - r) on both axes,
\* 4.5 being the projection's own reference pixel); the header's CD and
\* CRPIX values are the entry of the run's own scale.
C9_ScaleLaw ==
    /\ pc = "global_init" =>
          \A s \in Scales :
             LET t == TableAt(s)
             IN  \A q \in 0..(NRCID - 1) :
                    FullRank(RowsOf(df, q)) =>
                       /\ Times(OwnScale, CdBlock(rcmeta[q])) = Times(R(s), CdBlock(t[q]))
                       /\ Times(OwnScale,
                                MatVec(CdBlock(rcmeta[q]),
                                       << RSub(rcmeta[q].crpix1, t[q].crpix1),
                                          RSub(rcmeta[q].crpix2, t[q].crpix2) >>))
                            = Times(RSub(R(s), OwnScale), <<PROJ_CRPIX, PROJ_CRPIX>>)
    /\ pc = "write" =>
          LET t == TableAt(proj_wcs.cdelt[1][1])
          IN  /\ ValueOf(output_header, "CD1_1") = t[MY_RCID].cd11
              /\ ValueOf(output_header, "CD1_2") = t[MY_RCID].cd12
              /\ ValueOf(output_header, "CD2_1") = t[MY_RCID].cd21
              /\ ValueOf(output_header, "CD2_2") = t[MY_RCID].cd22
              /\ ValueOf(output_header, "CRPIX1") = t[MY_RCID].crpix1
              /\ ValueOf(output_header, "CRPIX2") = t[MY_RCID].crpix2
\* a run at two degrees per unit has derived a table whose blocks and
\* origins are not those of the run at one degree per unit
C9_Witness ==
    /\ pc = "global_init"
    /\ OwnScale = R(2)
    /\ archive.kind = "full"
    /\ CdBlock(rcmeta[MY_RCID]) # CdBlock(TableAt(1)[MY_RCID])
    /\ Crpix(rcmeta[MY_RCID]) # Crpix(TableAt(1)[MY_RCID])

\* C10: every execution of the writing cell leaves at the path named by
\* MY_RCID exactly the lines of output_header, whatever was there before (an
\* earlier run's file is replaced, not appended to, and the write does not
\* fail); no other path is touched, and executing the cell again with the
\* same header leaves the file as it is.
C10_IdempotentOverwrite ==
    [][writes' # writes =>
          /\ fs'[HeaderPath(MY_RCID)] = TextOf(output_header)
          /\ DOMAIN fs' = {HeaderPath(MY_RCID)}
          /\ output_header' = output_header
          /\ writes > 0 => fs' = fs]_vars
\* the cell has been executed twice, and the file holds the header's lines
C10_Witness ==
    /\ writes = 2
    /\ fs[HeaderPath(MY_RCID)] = TextOf(output_header)
    /\ Len(fs[HeaderPath(MY_RCID)]) = Len(HeaderKeys)

\* the four global columns of a row as the model m of its quadrant gives them
GlobalBy(m, row) ==
    LET xg == RSub(row.x_image, m.crpix1)
        yg == RSub(row.y_image, m.crpix2)
    IN  << xg, yg,
           RAdd(RMul(m.cd11, xg), RMul(m.cd12, yg)),
           RAdd(RMul(m.cd21, xg), RMul(m.cd22, yg)) >>
GlobalColumns(row) == <<row.x_global, row.y_global, row.etalin, row.nulin>>
LoadedColumns(row) ==
    <<row.rcid, row.x_image, row.y_image, row.eta, row.nu, row.ra, row.dec>>
Placeholder(row) == <<row.x_image, row.y_image, row.eta, row.nu>>
\* the loop has not yet reached the row's quadrant
Pending(row) == pc = "assemble" /\ row.rcid >= i
AssemblyState ==
    (pc \in {"assemble", "quad_x", "quad_y", "pv_start", "header", "write", "done"}) =>
        \A k \in DOMAIN df :
            /\ df[k].rcid \in 0..(NRCID - 1)
            /\ GlobalColumns(df[k]) =
                  IF Pending(df[k]) THEN Placeholder(df[k])
                  ELSE GlobalBy(rcmeta[df[k].rcid], df[k])
AssemblyFrame ==
    pc = "assemble" =>
        /\ DOMAIN df' = DOMAIN df
        /\ rcmeta' = rcmeta
        /\ \A k \in DOMAIN df :
              /\ LoadedColumns(df'[k]) = LoadedColumns(df[k])
              /\ df[k].rcid # i => df'[k] = df[k]
              /\ df[k].rcid = i => GlobalColumns(df'[k]) = GlobalBy(rcmeta[i], df[k])

\* C11: every row carries a quadrant id in 0..63; iteration i of the
\* assembly loop assigns x_global = x_image - crpix1[i], y_global = y_image
\* - crpix2[i], etalin = cd11[i] x_global + cd12[i] y_global and nulin =
\* cd21[i] x_global + cd22[i] y_global to the rows of quadrant i, and leaves
\* every other row, the loaded columns of all rows and rcmeta as they are;
\* so a row holds its initial copies until the loop reaches its quadrant, and
\* from then on, and in every row once the loop is over, the values that
\* its own quadrant's model gives.  (A row is assigned even when the value
\* assigned equals the copy, as etalin does for a star on the linear model.)
C11_AssemblyFrame == [](AssemblyState) /\ [][AssemblyFrame]_vars
\* the loop is half way: a row of a quadrant behind it holds its own model's
\* values, which differ from the copies, and a row of a quadrant ahead of it
\* still holds the copies
C11_Witness ==
    /\ pc = "assemble"
    /\ i = MY_RCID
    /\ \E k \in DOMAIN df :
          /\ df[k].rcid = i - 1
          /\ GlobalColumns(df[k]) = GlobalBy(rcmeta[i - 1], df[k])
          /\ GlobalColumns(df[k]) # GlobalBy(rcmeta[0], df[k])
          /\ df[k].x_global # df[k].x_image
    /\ \E k \in DOMAIN df :
          /\ df[k].rcid = i
          /\ GlobalColumns(df[k]) = Placeholder(df[k])

\* (TELRAD, TELDECD), the centre of the projection, in tangent-plane
\* coordinates about the pointing
ReferencePlane == <<R(0), R(0)>>
\* the pixel of quadrant q that images the reference position: the archive
\* has sky = WorldCentre + QuadMatrix(q) (pixel - QuadPixel0(q))
ReferencePixel(q) ==
    LET mi == QuadMatrixInv(q)
        p0 == QuadPixel0(q)
    IN  << R(p0[1] - mi[1] * WorldCentre[1] - mi[2] * WorldCentre[2]),
           R(p0[2] - mi[3] * WorldCentre[1] - mi[4] * WorldCentre[2]) >>

\* C12 as stated: the projection gives the reference position (TELRAD,
\* TELDECD) the projected coordinates (0, 0), and the CRPIX1, CRPIX2 of the
\* header are the pixel of the selected quadrant that images the position
\* written as CRVAL1, CRVAL2.
C12_ReferenceSelfConsistent ==
    pc \in {"write", "done"} =>
        /\ <<ValueOf(output_header, "CRVAL1"), ValueOf(output_header, "CRVAL2")>>
              = proj_wcs.crval
        /\ wcs_world2pix(proj_wcs, ReferencePlane[1], ReferencePlane[2]) = <<R(0), R(0)>>
        /\ FullRank(RowsOf(df, MY_RCID)) =>
              <<ValueOf(output_header, "CRPIX1"), ValueOf(output_header, "CRPIX2")>>
                 = ReferencePixel(MY_RCID)

====
